---- MODULE Spec2Model ----
(***************************************************************************)
(* chromexup: external extension updater for Chromium based browsers.      *)
(*                                                                         *)
(* The model follows src/chromexup/main.py on the linux/darwin binding:    *)
(* the extension directory cfg['extdir'] holds, per extension ID, a        *)
(* package file <id>.crx and a preferences file <id>.json (the install     *)
(* record).  main() maps process() over the configured IDs on a thread     *)
(* pool and then calls remove_orphans().  Every file operation and every   *)
(* network request of a worker is one step, so the interleavings of the    *)
(* pool's threads and the states between two file operations are states    *)
(* of the model.                                                           *)
(***************************************************************************)
EXTENDS Integers, Sequences, FiniteSets, TLC

\* ---------------------------------------------------------------- bounds
MaxRuns == 2        \* successive runs of the program over the same store
MaxThreads == 2     \* largest cfg['threads']
MaxExt == 3         \* longest [extensions] list

\* Extension IDs, in a fixed order used to enumerate configurations.
IdOrder == <<"a", "b", "c">>
IDs == {IdOrder[k] : k \in 1..Len(IdOrder)}
IdPos(id) == CHOOSE k \in 1..Len(IdOrder) : IdOrder[k] = id

\* Version strings the store publishes.
Versions == {"1.0", "1.1"}

\* ---------------------------------------------------------- file contents
Absent == "absent"          \* no such file
Partial == "partial"        \* opened for writing: truncated, not yet written
NoVersion == "noversion"    \* valid JSON without the key 'external_version'
CrxContents == {Absent, Partial} \cup Versions
JsonContents == {Absent, Partial, NoVersion} \cup Versions

\* --------------------------------------------------------- remote answers
NoContent == "204"
BadUrl == "https://store/error"
UrlOf(v) == CASE v = "1.0" -> "https://store/extension_1_0.crx"
              [] v = "1.1" -> "https://store/extension_1_1.crx"
              [] OTHER -> BadUrl
Urls == {UrlOf(v) : v \in Versions} \cup {BadUrl}
Responses == {NoContent} \cup Urls

NoMatch == "nomatch"
Raise == "raise"
None == "none"

\* m = re.search(r'extension_([\d_]+).crx', url); m.group(1)
re_search(url) == CASE url = "https://store/extension_1_0.crx" -> "1_0"
                    [] url = "https://store/extension_1_1.crx" -> "1_1"
                    [] OTHER -> NoMatch

\* m.group(1).replace('_', '.')
replace_underscores(g) == CASE g = "1_0" -> "1.0"
                            [] g = "1_1" -> "1.1"
                            [] OTHER -> g

\* ---------------------------------------------------------- configuration
NoCfg == [extensions |-> <<>>, threads |-> 0, remove_orphans |-> FALSE]

Max(S) == CHOOSE x \in S : \A y \in S : y <= x

\* IDs are opaque, so a list is enumerated up to renaming: the first
\* occurrences of the IDs appear in the order of IdOrder.
Canonical(s) ==
    \A k \in 1..Len(s) :
        IdPos(s[k]) <= 1 + Max({0} \cup {IdPos(s[j]) : j \in 1..(k - 1)})

ExtLists == {s \in UNION {[1..n -> IDs] : n \in 0..MaxExt} : Canonical(s)}

Range(s) == {s[k] : k \in 1..Len(s)}

Configs == [extensions : ExtLists, threads : 1..MaxThreads,
            remove_orphans : BOOLEAN]

\* ------------------------------------------------------------------ state
VARIABLES
    run,        \* number of the current run of the program
    mainpc,     \* position of the main thread
    cfgfiles,   \* get_cfgfiles(): the parsed content of each *.ini file
    cfgIdx,     \* index of the current file in the loop of main()
    cfg,        \* the global cfg
    tasks,      \* one entry per element of pool.map(process, extensions)
    crx,        \* <extdir>/<id>.crx
    json,       \* <extdir>/<id>.json
    remote,     \* what the web store answers for each ID
    orphans,    \* remove_orphans: orphans still to be removed
    cur,        \* remove_orphans: the orphan whose files are being removed
    snapCrx,    \* history: crx at the start of the pass / at the end of map
    snapJson,   \* history: json at the same moments
    quiet,      \* history: IDs for which a process() call returned on its own
    target,     \* _get_latest_version alone: the redirect target, a string
    result      \* _get_latest_version alone: what it returned for target

\* The two variables of _get_latest_version taken alone; the runs of main()
\* leave them as they are.
parseVars == <<target, result>>

vars == <<run, mainpc, cfgfiles, cfgIdx, cfg, tasks, crx, json, remote,
          orphans, cur, snapCrx, snapJson, quiet, target, result>>

ActivePcs == {"start", "resolve", "download", "crx_open", "crx_write",
              "json_open", "json_write"}

QueuedTask == [pc |-> "queued", installed_ver |-> None, latest_ver |-> None]

ext(i) == cfg.extensions[i]
Active(i) == tasks[i].pc \in ActivePcs
NumActive == Cardinality({i \in DOMAIN tasks : Active(i)})

\* The process is alive and its pool exists: the pool's threads can run.
OrphanPcs == {"remove_orphans", "rm_loop", "rm_json", "reconciled"}
Running == mainpc \in {"map"} \cup OrphanPcs

\* ------------------------------------------------------------------- Init
\* A store in which every ID is either not installed or installed with a
\* record and a package of one version.
ConsistentStores == [IDs -> {Absent} \cup Versions]

Init ==
    /\ run = 1
    /\ mainpc = "cfgloop"
    /\ cfgIdx = 1
    /\ cfg = NoCfg
    /\ tasks = <<>>
    /\ orphans = {}
    /\ cur = None
    /\ quiet = {}
    /\ target = <<>>
    /\ result = None
    /\ \E c \in Configs :
        /\ cfgfiles = <<c>>
        /\ \E s \in ConsistentStores :
            /\ \A id \in IDs \ Range(c.extensions) : s[id] \in {Absent, "1.0"}
            /\ crx = s
            /\ json = s
            /\ snapCrx = s
            /\ snapJson = s
        /\ remote \in [IDs -> Responses]
        /\ \A id \in IDs \ Range(c.extensions) : remote[id] = NoContent

\* ---------------------------------------------------------------- process
\* Variant: the record is looked up under a path that never exists.
get_installed_version_missing(content) == "0"

\* _get_installed_version: the value returned, or Raise for an exception
\* other than FileNotFoundError (json.load on a truncated file, KeyError).
get_installed_version(content) ==
    IF content = Absent THEN "0"
    ELSE IF content \in Versions THEN content
    ELSE Raise

\* Variant: status 204 is not recognised and the missing redirect target
\* makes the call fail with an exception.
get_latest_version_no204(resp) ==
    IF resp = NoContent THEN Raise
    ELSE IF re_search(resp) = NoMatch THEN Raise
    ELSE replace_underscores(re_search(resp))

\* _get_latest_version on an answered request: the version, NoContent for
\* FileNotFoundError, Raise for RuntimeError.
get_latest_version(resp) ==
    IF resp = NoContent THEN NoContent
    ELSE IF re_search(resp) = NoMatch THEN Raise
    ELSE replace_underscores(re_search(resp))

\* Variant: versions are ordered and only a higher remote version counts.
is_outdated_ordered(installed_ver, latest_ver) ==
    \/ installed_ver = "0"
    \/ installed_ver = "1.0" /\ latest_ver = "1.1"

is_outdated(installed_ver, latest_ver) == installed_ver # latest_ver

\* Variant: every package is written to one file name.
CrxPathShared(id) == IdOrder[1]

\* Paths of the two files of an ID inside cfg['extdir'].
CrxPath(id) == id
JsonPath(id) == id

\* A process(id) call returns: the worker is free again.
Return(i) ==
    /\ tasks' = [tasks EXCEPT ![i] = [pc |-> "returned", installed_ver |-> None,
                                      latest_ver |-> None]]
    /\ quiet' = IF \E j \in DOMAIN tasks : j # i /\ Active(j) /\ ext(j) = ext(i)
                THEN quiet ELSE quiet \cup {ext(i)}

\* An exception leaves process(): the pool stores it as the job's result.
RaiseIn(i) ==
    /\ tasks' = [tasks EXCEPT ![i] = [pc |-> "raised", installed_ver |-> None,
                                      latest_ver |-> None]]
    /\ quiet' = quiet

\* os._exit(1) in a worker: the whole process ends at once.
OsExit(i) ==
    /\ tasks' = [tasks EXCEPT ![i].pc = "exited"]
    /\ mainpc' = "exit1"
    /\ quiet' = quiet

\* Variant: one thread per job, whatever cfg['threads'] says.
TakeUnbounded(i) ==
    /\ Running
    /\ tasks[i].pc = "queued"
    /\ \A j \in 1..(i - 1) : tasks[j].pc # "queued"
    /\ tasks' = [tasks EXCEPT ![i].pc = "start"]
    /\ UNCHANGED <<parseVars, run, mainpc, cfgfiles, cfgIdx, cfg, crx, json, remote,
                   orphans, cur, snapCrx, snapJson, quiet>>

\* Variant: a pool without a job queue: only the first cfg['threads'] jobs
\* are ever started.
TakeFirstBatch(i) ==
    /\ Running
    /\ tasks[i].pc = "queued"
    /\ i <= cfg.threads
    /\ \A j \in 1..(i - 1) : tasks[j].pc # "queued"
    /\ NumActive < cfg.threads
    /\ tasks' = [tasks EXCEPT ![i].pc = "start"]
    /\ UNCHANGED <<parseVars, run, mainpc, cfgfiles, cfgIdx, cfg, crx, json, remote,
                   orphans, cur, snapCrx, snapJson, quiet>>

\* A pool thread takes the next job of the map (jobs are taken in order).
\* pool.map cuts the list into chunks of ceil(len / (4 * threads)) IDs, which
\* is one ID per job for every list of at most 4 * threads IDs.
Take(i) ==
    /\ Running
    /\ tasks[i].pc = "queued"
    /\ \A j \in 1..(i - 1) : tasks[j].pc # "queued"
    /\ NumActive < cfg.threads
    /\ tasks' = [tasks EXCEPT ![i].pc = "start"]
    /\ UNCHANGED <<parseVars, run, mainpc, cfgfiles, cfgIdx, cfg, crx, json, remote,
                   orphans, cur, snapCrx, snapJson, quiet>>

\* installed_ver = _get_installed_version(id)
GetInstalled(i) ==
    /\ Running
    /\ tasks[i].pc = "start"
    /\ LET v == get_installed_version(json[JsonPath(ext(i))])
       IN  IF v = Raise
           THEN RaiseIn(i)
           ELSE /\ tasks' = [tasks EXCEPT ![i].pc = "resolve",
                                          ![i].installed_ver = v]
                /\ quiet' = quiet
    /\ UNCHANGED <<parseVars, run, mainpc, cfgfiles, cfgIdx, cfg, crx, json, remote,
                   orphans, cur, snapCrx, snapJson>>

\* (latest_ver, url) = _get_latest_version(id), and the test of is_outdated
Resolve(i) ==
    /\ Running
    /\ tasks[i].pc = "resolve"
    /\ \E answered \in BOOLEAN :
        IF ~answered
        THEN OsExit(i)      \* RequestException
        ELSE LET v == get_latest_version(remote[ext(i)])
             IN  /\ mainpc' = mainpc
                 /\ IF v = NoContent THEN Return(i)
                    ELSE IF v = Raise THEN RaiseIn(i)
                    ELSE IF is_outdated(tasks[i].installed_ver, v)
                    THEN /\ tasks' = [tasks EXCEPT ![i].pc = "download",
                                                   ![i].latest_ver = v]
                         /\ quiet' = quiet
                    ELSE Return(i)
    /\ UNCHANGED <<parseVars, run, cfgfiles, cfgIdx, cfg, crx, json, remote,
                   orphans, cur, snapCrx, snapJson>>

\* ext_data = _download(url)
Download(i) ==
    /\ Running
    /\ tasks[i].pc = "download"
    /\ \E answered \in BOOLEAN :
        IF ~answered
        THEN OsExit(i)      \* RequestException
        ELSE /\ tasks' = [tasks EXCEPT ![i].pc = "crx_open"]
             /\ mainpc' = mainpc
             /\ quiet' = quiet
    /\ UNCHANGED <<parseVars, run, cfgfiles, cfgIdx, cfg, crx, json, remote,
                   orphans, cur, snapCrx, snapJson>>

\* _create: open(<id>.crx, 'wb')
CrxOpen(i) ==
    /\ Running
    /\ tasks[i].pc = "crx_open"
    /\ crx' = [crx EXCEPT ![CrxPath(ext(i))] = Partial]
    /\ tasks' = [tasks EXCEPT ![i].pc = "crx_write"]
    /\ UNCHANGED <<parseVars, run, mainpc, cfgfiles, cfgIdx, cfg, json, remote,
                   orphans, cur, snapCrx, snapJson, quiet>>

\* _create: f.write(data) and the close of the file
CrxWrite(i) ==
    /\ Running
    /\ tasks[i].pc = "crx_write"
    /\ crx' = [crx EXCEPT ![CrxPath(ext(i))] = tasks[i].latest_ver]
    /\ tasks' = [tasks EXCEPT ![i].pc = "json_open"]
    /\ UNCHANGED <<parseVars, run, mainpc, cfgfiles, cfgIdx, cfg, json, remote,
                   orphans, cur, snapCrx, snapJson, quiet>>

\* _create: open(<id>.json, 'w')
JsonOpen(i) ==
    /\ Running
    /\ tasks[i].pc = "json_open"
    /\ json' = [json EXCEPT ![JsonPath(ext(i))] = Partial]
    /\ tasks' = [tasks EXCEPT ![i].pc = "json_write"]
    /\ UNCHANGED <<parseVars, run, mainpc, cfgfiles, cfgIdx, cfg, crx, remote,
                   orphans, cur, snapCrx, snapJson, quiet>>

\* _create: json.dump(pref_data, f) and the close of the file; process returns
JsonWrite(i) ==
    /\ Running
    /\ tasks[i].pc = "json_write"
    /\ json' = [json EXCEPT ![JsonPath(ext(i))] = tasks[i].latest_ver]
    /\ Return(i)
    /\ UNCHANGED <<parseVars, run, mainpc, cfgfiles, cfgIdx, cfg, crx, remote,
                   orphans, cur, snapCrx, snapJson>>

\* ------------------------------------------------------------------- main
\* for cfgfile in cfgfiles: cfg = parse_config(cfgfile); pool.map(...)
ParseConfig ==
    /\ mainpc = "cfgloop"
    /\ IF cfgIdx <= Len(cfgfiles)
       THEN /\ cfg' = cfgfiles[cfgIdx]
            /\ tasks' = [i \in 1..Len(cfgfiles[cfgIdx].extensions) |-> QueuedTask]
            /\ mainpc' = "map"
       ELSE /\ mainpc' = "done"
            /\ UNCHANGED <<cfg, tasks>>
    /\ snapCrx' = crx
    /\ snapJson' = json
    /\ UNCHANGED <<parseVars, run, cfgfiles, cfgIdx, crx, json, remote, orphans, cur, quiet>>

\* Variant: map_async, the main thread does not wait for the jobs.
MapDoneAsync == TRUE

\* Variant: a job that raised counts as done and its exception is dropped.
MapDoneIgnoreErrors == \A i \in DOMAIN tasks : tasks[i].pc \in {"returned", "raised"}

\* pool.map returns once every job has returned; pool.close(); pool.join()
MapDone == \A i \in DOMAIN tasks : tasks[i].pc = "returned"

\* Variant: pool.imap and no pool.join(): main goes on as soon as every job
\* has been handed to a thread.
MapReturnNoJoin ==
    /\ mainpc = "map"
    /\ \A i \in DOMAIN tasks : tasks[i].pc # "queued"
    /\ mainpc' = "remove_orphans"
    /\ snapCrx' = crx
    /\ snapJson' = json
    /\ UNCHANGED <<parseVars, run, cfgfiles, cfgIdx, cfg, tasks, crx, json, remote,
                   orphans, cur, quiet>>

MapReturn ==
    /\ mainpc = "map"
    /\ MapDone
    /\ mainpc' = "remove_orphans"
    /\ snapCrx' = crx
    /\ snapJson' = json
    /\ UNCHANGED <<parseVars, run, cfgfiles, cfgIdx, cfg, tasks, crx, json, remote,
                   orphans, cur, quiet>>

\* pool.map re-raises a job's exception in the main thread, which nothing
\* catches.  The pool does so at the first failed job or once all jobs are
\* done, depending on the interpreter; both are allowed here.
MapRaise ==
    /\ mainpc = "map"
    /\ \E i \in DOMAIN tasks : tasks[i].pc = "raised"
    /\ mainpc' = "uncaught"
    /\ UNCHANGED <<parseVars, run, cfgfiles, cfgIdx, cfg, tasks, crx, json, remote,
                   orphans, cur, snapCrx, snapJson, quiet>>

\* remove_orphans: if not cfg['remove_orphans']: return
RemoveOrphansSkip ==
    /\ mainpc = "remove_orphans"
    /\ ~cfg.remove_orphans
    /\ mainpc' = "reconciled"
    /\ UNCHANGED <<parseVars, run, cfgfiles, cfgIdx, cfg, tasks, crx, json, remote,
                   orphans, cur, snapCrx, snapJson, quiet>>

\* Variant: the configured IDs are not subtracted.
ScanOrphansAll(files, extensions) ==
    {id \in IDs : files[CrxPath(id)] # Absent}

\* glob('*.crx') and set(ext_files) - set(cfg['extensions'])
ScanOrphans(files, extensions) ==
    {id \in IDs : files[CrxPath(id)] # Absent} \ Range(extensions)

\* Variant: the flag is not tested.
RemoveOrphansScanAlways ==
    /\ mainpc = "remove_orphans"
    /\ orphans' = ScanOrphans(crx, cfg.extensions)
    /\ mainpc' = "rm_loop"
    /\ UNCHANGED <<parseVars, run, cfgfiles, cfgIdx, cfg, tasks, crx, json, remote,
                   cur, snapCrx, snapJson, quiet>>

RemoveOrphansScan ==
    /\ mainpc = "remove_orphans"
    /\ cfg.remove_orphans
    /\ orphans' = ScanOrphans(crx, cfg.extensions)
    /\ mainpc' = "rm_loop"
    /\ UNCHANGED <<parseVars, run, cfgfiles, cfgIdx, cfg, tasks, crx, json, remote,
                   cur, snapCrx, snapJson, quiet>>

\* for id in orphans: os.remove(<id>.crx)
RemoveCrx ==
    /\ mainpc = "rm_loop"
    /\ IF orphans = {}
       THEN /\ mainpc' = "reconciled"
            /\ UNCHANGED <<crx, orphans, cur, quiet>>
       ELSE \E id \in orphans :
            IF crx[CrxPath(id)] = Absent
            THEN \* FileNotFoundError: logged, next orphan
                 /\ orphans' = orphans \ {id}
                 /\ UNCHANGED <<mainpc, crx, cur, quiet>>
            ELSE /\ crx' = [crx EXCEPT ![CrxPath(id)] = Absent]
                 /\ cur' = id
                 /\ quiet' = quiet \ {id}
                 /\ mainpc' = "rm_json"
                 /\ UNCHANGED orphans
    /\ UNCHANGED <<parseVars, run, cfgfiles, cfgIdx, cfg, tasks, json, remote,
                   snapCrx, snapJson>>

\* Variant: the try statement encloses the for loop, so the first missing
\* file ends the loop.
RemoveJsonTryOutside ==
    /\ mainpc = "rm_json"
    /\ IF json[JsonPath(cur)] = Absent
       THEN /\ orphans' = {}
            /\ UNCHANGED json
       ELSE /\ json' = [json EXCEPT ![JsonPath(cur)] = Absent]
            /\ orphans' = orphans \ {cur}
    /\ cur' = None
    /\ mainpc' = "rm_loop"
    /\ UNCHANGED <<parseVars, run, cfgfiles, cfgIdx, cfg, tasks, crx, remote,
                   snapCrx, snapJson, quiet>>

\* os.remove(<id>.json); a FileNotFoundError is caught inside the loop body
\* and logged, and the loop goes on with the next orphan
RemoveJson ==
    /\ mainpc = "rm_json"
    /\ IF json[JsonPath(cur)] = Absent
       THEN UNCHANGED json
       ELSE json' = [json EXCEPT ![JsonPath(cur)] = Absent]
    /\ orphans' = orphans \ {cur}
    /\ cur' = None
    /\ mainpc' = "rm_loop"
    /\ UNCHANGED <<parseVars, run, cfgfiles, cfgIdx, cfg, tasks, crx, remote,
                   snapCrx, snapJson, quiet>>

\* end of the loop body: the next configuration file
NextCfg ==
    /\ mainpc = "reconciled"
    /\ cfgIdx' = cfgIdx + 1
    /\ mainpc' = "cfgloop"
    /\ UNCHANGED <<parseVars, run, cfgfiles, cfg, tasks, crx, json, remote,
                   orphans, cur, snapCrx, snapJson, quiet>>

\* The program is started again (it is run periodically) on the store the
\* previous run left behind.
Restart ==
    /\ mainpc \in {"done", "exit1", "uncaught"}
    /\ run < MaxRuns
    /\ run' = run + 1
    /\ mainpc' = "cfgloop"
    /\ cfgIdx' = 1
    /\ cfg' = NoCfg
    /\ tasks' = <<>>
    /\ orphans' = {}
    /\ cur' = None
    /\ snapCrx' = crx
    /\ snapJson' = json
    /\ UNCHANGED <<parseVars, cfgfiles, crx, json, remote, quiet>>

Next ==
    \/ \E i \in DOMAIN tasks : Take(i)
    \/ \E i \in DOMAIN tasks : GetInstalled(i)
    \/ \E i \in DOMAIN tasks : Resolve(i)
    \/ \E i \in DOMAIN tasks : Download(i)
    \/ \E i \in DOMAIN tasks : CrxOpen(i)
    \/ \E i \in DOMAIN tasks : CrxWrite(i)
    \/ \E i \in DOMAIN tasks : JsonOpen(i)
    \/ \E i \in DOMAIN tasks : JsonWrite(i)
    \/ ParseConfig
    \/ MapReturn
    \/ MapRaise
    \/ RemoveOrphansSkip
    \/ RemoveOrphansScan
    \/ RemoveCrx
    \/ RemoveJson
    \/ NextCfg
    \/ Restart

Spec == Init /\ [][Next]_vars

\* ------------------------------------------------------ runs that go on
MaxLiveExt == 2     \* longest [extensions] list of the runs checked to the end

InitLive ==
    /\ Init
    /\ Len(cfgfiles[1].extensions) <= MaxLiveExt

\* Threads are scheduled by the operating system and every blocking call
\* (a request, a file operation, a wait on the pool) returns: as long as
\* some step of the program can be taken, one is taken.
SpecLive == InitLive /\ [][Next]_vars /\ WF_vars(Next)

\* ------------------------------------------- two configuration files
MaxMultiExt == 1    \* longest [extensions] list of each of the two files

MultiLists == UNION {[1..n -> IDs] : n \in 0..MaxMultiExt}

\* get_cfgfiles() finds two *.ini files of one branding, so both passes
\* work on the same extension directory.
InitMulti ==
    /\ run = 1
    /\ mainpc = "cfgloop"
    /\ cfgIdx = 1
    /\ cfg = NoCfg
    /\ tasks = <<>>
    /\ orphans = {}
    /\ cur = None
    /\ quiet = {}
    /\ target = <<>>
    /\ result = None
    /\ \E l1 \in MultiLists, l2 \in MultiLists :
        /\ Canonical(l1 \o l2)
        /\ \E t1 \in 1..MaxThreads, t2 \in 1..MaxThreads, r1 \in BOOLEAN, r2 \in BOOLEAN :
              cfgfiles = <<[extensions |-> l1, threads |-> t1, remove_orphans |-> r1],
                           [extensions |-> l2, threads |-> t2, remove_orphans |-> r2]>>
        /\ \E s \in ConsistentStores :
            /\ \A id \in IDs \ Range(l1 \o l2) : s[id] \in {Absent, "1.0"}
            /\ crx = s
            /\ json = s
            /\ snapCrx = s
            /\ snapJson = s
        /\ remote \in [IDs -> Responses]
        /\ \A id \in IDs \ Range(l1 \o l2) : remote[id] = NoContent

SpecMulti == InitMulti /\ [][Next]_vars

\* ------------------------------------------------- a store found as it is
MaxDirtyExt == 1    \* longest [extensions] list run over an arbitrary store

\* The extension directory is a directory of the user's file system: an
\* earlier run that was killed, another program or the user may have left
\* any combination of files in it.
DirtyCrx == {Absent, Partial, "1.0"}
DirtyJson == {Absent, Partial, NoVersion, "1.0"}

InitDirty ==
    /\ run = 1
    /\ mainpc = "cfgloop"
    /\ cfgIdx = 1
    /\ cfg = NoCfg
    /\ tasks = <<>>
    /\ orphans = {}
    /\ cur = None
    /\ quiet = {}
    /\ target = <<>>
    /\ result = None
    /\ \E c \in Configs :
        /\ Len(c.extensions) <= MaxDirtyExt
        /\ cfgfiles = <<c>>
        /\ crx \in [IDs -> DirtyCrx]
        /\ json \in [IDs -> DirtyJson]
        /\ snapCrx = crx
        /\ snapJson = json
        /\ remote \in [IDs -> Responses]
        /\ \A id \in IDs \ Range(c.extensions) : remote[id] = NoContent

SpecDirty == InitDirty /\ [][Next]_vars

TypeOK ==
    /\ run \in 1..MaxRuns
    /\ mainpc \in {"cfgloop", "map", "done", "exit1", "uncaught"} \cup OrphanPcs
    /\ cfgIdx \in 1..(Len(cfgfiles) + 1)
    /\ cfg \in Configs \cup {NoCfg}
    /\ DOMAIN tasks = 1..Len(cfg.extensions)
    /\ \A i \in DOMAIN tasks :
        /\ tasks[i].pc \in ActivePcs \cup {"queued", "returned", "raised", "exited"}
        /\ tasks[i].installed_ver \in Versions \cup {"0", None}
        /\ tasks[i].latest_ver \in Versions \cup {None}
    /\ NumActive <= cfg.threads
    /\ crx \in [IDs -> CrxContents]
    /\ json \in [IDs -> JsonContents]
    /\ remote \in [IDs -> Responses]
    /\ orphans \subseteq IDs
    /\ cur \in IDs \cup {None}
    /\ quiet \subseteq IDs

\* ---------------------------------------------- process, one call at a time
Distinct(s) == \A j, k \in 1..Len(s) : s[j] = s[k] => j = k

\* The store after one uninterrupted process(id) call that ends without a
\* transport failure; a call that raises leaves the store as it is.
process(st, id) ==
    LET installed_ver == get_installed_version(st.json[JsonPath(id)])
        latest_ver == get_latest_version(remote[id])
    IN  IF installed_ver = Raise \/ latest_ver \in {NoContent, Raise}
        THEN st
        ELSE IF is_outdated(installed_ver, latest_ver)
        THEN [crx |-> [st.crx EXCEPT ![CrxPath(id)] = latest_ver],
              json |-> [st.json EXCEPT ![JsonPath(id)] = latest_ver]]
        ELSE st

\* for id in extensions: process(id)
RECURSIVE RunSeq(_, _)
RunSeq(st, ids) ==
    IF ids = <<>> THEN st ELSE RunSeq(process(st, Head(ids)), Tail(ids))


\* ------------------------------------------------------ derived notions
\* The ID of job i occurs once in the configured list.
Unique(i) == \A j \in DOMAIN tasks : cfg.extensions[j] = cfg.extensions[i] => j = i

\* While the pool maps (or the process died while it did), snapCrx and
\* snapJson hold the store as the pass found it.
InPass == mainpc \in {"map", "exit1", "uncaught"}

WritePcs == {"crx_open", "crx_write", "json_open", "json_write"}

Fatal(i) == tasks[i].pc \in {"raised", "exited"}

NoDeletion ==
    \A id \in IDs :
        /\ crx[id] # Absent => crx'[id] # Absent
        /\ json[id] # Absent => json'[id] # Absent

\* --------------------------------------------------------------- claims

\* C1: a process(id) call installs exactly when the installed version read
\* from the record differs from the resolved version (equality only, so
\* a lower remote version is installed too).  For an ID configured once:
\* if the versions are equal neither file is ever written during the pass;
\* if they differ the package is written first (the record is untouched
\* until the package holds the resolved version) and once the call has
\* returned the record reports exactly the resolved version.
C1_InstallIffDiffers ==
    InPass =>
        \A i \in DOMAIN tasks :
            LET id == ext(i)
                inst == get_installed_version(snapJson[id])
                v == get_latest_version(remote[id])
            IN  (Unique(i) /\ v \in Versions /\ inst # Raise) =>
                    IF inst = v
                    THEN /\ crx[id] = snapCrx[id]
                         /\ json[id] = snapJson[id]
                         /\ tasks[i].pc \notin WritePcs \cup {"download"}
                    ELSE /\ tasks[i].pc \in {"json_open", "json_write", "returned"}
                                => crx[id] = v
                         /\ tasks[i].pc \in {"crx_open", "crx_write"}
                                => json[id] = snapJson[id]
                         /\ tasks[i].pc = "returned" => json[id] = v

\* C1 witness: a call has returned after replacing version 1.1 by the lower
\* remote version 1.0.
C1_Witness ==
    /\ mainpc = "map"
    /\ \E i \in DOMAIN tasks :
        /\ Unique(i)
        /\ tasks[i].pc = "returned"
        /\ snapJson[ext(i)] = "1.1"
        /\ json[ext(i)] = "1.0"
        /\ crx[ext(i)] = "1.0"

\* C2: once a process(id) call has returned with no other call for the same
\* ID in progress, no later process(id) call (in this run or the next one,
\* the remote store answering the same) writes the package or the record
\* of that ID.
C2_Idempotent ==
    [][\A id \in quiet :
          (mainpc = "map" /\ mainpc' \in {"map", "exit1"}) =>
              /\ crx'[id] = crx[id]
              /\ json'[id] = json[id]]_vars

\* C2 witness: with one worker and the list <<a, a>>, the first call
\* installed a (it was absent at the start of the pass) and the second call
\* has returned as well.
C2_Witness ==
    /\ mainpc = "map"
    /\ cfg.threads = 1
    /\ Len(cfg.extensions) >= 2
    /\ cfg.extensions[1] = cfg.extensions[2]
    /\ tasks[1].pc = "returned"
    /\ tasks[2].pc = "returned"
    /\ snapJson[cfg.extensions[1]] = Absent
    /\ json[cfg.extensions[1]] \in Versions
    /\ cfg.extensions[1] \in quiet

\* C3: when the store answers 204 for an ID (configured once), the call
\* never reaches the download or a file write, ends without an exception
\* unless the record could not be read before the query was even sent, and
\* the package and the record stay as the pass found them.
C3_NotFoundSkip ==
    InPass =>
        \A i \in DOMAIN tasks :
            LET id == ext(i)
            IN  (Unique(i) /\ remote[id] = NoContent) =>
                    /\ crx[id] = snapCrx[id]
                    /\ json[id] = snapJson[id]
                    /\ tasks[i].pc \notin WritePcs \cup {"download"}
                    /\ tasks[i].pc = "raised" =>
                           get_installed_version(snapJson[id]) = Raise

\* C3 witness: a call for an installed ID has returned on a 204 answer.
C3_Witness ==
    /\ mainpc = "map"
    /\ \E i \in DOMAIN tasks :
        /\ Unique(i)
        /\ remote[ext(i)] = NoContent
        /\ tasks[i].pc = "returned"
        /\ json[ext(i)] \in Versions
        /\ crx[ext(i)] = json[ext(i)]

\* C4: while remove_orphans is scanning or deleting (and until it has
\* returned), every job of the map has finished: none is queued or active.
C4_Barrier ==
    mainpc \in OrphanPcs =>
        \A i \in DOMAIN tasks : tasks[i].pc = "returned"

\* C4 witness: remove_orphans is between the two removals of an orphan
\* after a pass in which a job installed an extension.
C4_Witness ==
    /\ mainpc = "rm_json"
    /\ cur \in IDs
    /\ \E i \in DOMAIN tasks :
        /\ tasks[i].pc = "returned"
        /\ json[ext(i)] \in Versions
        /\ json[ext(i)] # "1.0"

\* C5: once a job of the pass has hit a run-fatal condition (os._exit on a
\* transport failure, or an exception leaving process), remove_orphans is
\* not executed and no step deletes a package or a record.
C5_NoOrphansAfterAbort ==
    [][(\E i \in DOMAIN tasks : Fatal(i)) =>
          /\ mainpc \notin OrphanPcs
          /\ mainpc' \notin OrphanPcs
          /\ NoDeletion]_vars

\* C5 witness: the pass was aborted by an unparseable redirect, orphan
\* removal is enabled and an orphan is still installed.
C5_Witness ==
    /\ mainpc = "uncaught"
    /\ cfg.remove_orphans
    /\ \E i \in DOMAIN tasks :
        /\ tasks[i].pc = "raised"
        /\ remote[ext(i)] = BadUrl
    /\ \E id \in IDs \ Range(cfg.extensions) :
        crx[id] \in Versions /\ json[id] \in Versions

\* C6: for pairwise distinct configured IDs, when the map has completed the
\* store equals the result of the same process() calls made one after
\* another on the store the pass started from, whatever the pool size and
\* the interleaving.
C6_SameAsSequential ==
    (mainpc = "map" /\ MapDone /\ Distinct(cfg.extensions)) =>
        LET seq == RunSeq([crx |-> snapCrx, json |-> snapJson], cfg.extensions)
        IN  /\ crx = seq.crx
            /\ json = seq.json

\* C6 witness: three distinct IDs on two workers, all three installed.
C6_Witness ==
    /\ mainpc = "map"
    /\ MapDone
    /\ Len(cfg.extensions) = 3
    /\ Distinct(cfg.extensions)
    /\ cfg.threads = 2
    /\ \A id \in IDs : json[id] \in Versions /\ json[id] # snapJson[id]
    /\ \E id1 \in IDs, id2 \in IDs : json[id1] # json[id2]

\* C7: with orphan removal enabled, from the scan until remove_orphans has
\* returned, the files of every ID that is configured or has no package
\* are as the scan found them, and when it has returned the package and
\* the record of every ID with a package and outside the configuration
\* are gone.
C7_OrphanSet ==
    (mainpc \in {"rm_loop", "rm_json", "reconciled"} /\ cfg.remove_orphans) =>
        \A id \in IDs :
            IF snapCrx[id] # Absent /\ id \notin Range(cfg.extensions)
            THEN mainpc = "reconciled" =>
                    /\ crx[id] = Absent
                    /\ json[id] = Absent
            ELSE /\ crx[id] = snapCrx[id]
                 /\ json[id] = snapJson[id]

\* C7 witness: a is installed and configured, b is configured and not
\* installed, c was installed and is not configured; c has been removed.
C7_Witness ==
    /\ mainpc = "reconciled"
    /\ cfg.remove_orphans
    /\ cfg.extensions = <<"a", "b">>
    /\ crx["a"] \in Versions /\ json["a"] \in Versions
    /\ crx["b"] = Absent /\ json["b"] = Absent
    /\ snapCrx["c"] \in Versions /\ snapJson["c"] \in Versions
    /\ crx["c"] = Absent /\ json["c"] = Absent

\* C8: while the orphan-removal flag of the configuration is false, no
\* step of any run removes a package or a record, and remove_orphans
\* never gets to the scan or to a removal.
C8_OptOut ==
    /\ [](~cfg.remove_orphans => mainpc \notin {"rm_loop", "rm_json"})
    /\ [][(\A k \in DOMAIN cfgfiles : ~cfgfiles[k].remove_orphans) => NoDeletion]_vars

\* C8 witness: the second run has ended and an ID outside the
\* configuration is still installed.
C8_Witness ==
    /\ run = 2
    /\ mainpc = "done"
    /\ \A k \in DOMAIN cfgfiles : ~cfgfiles[k].remove_orphans
    /\ \E id \in IDs \ Range(cfgfiles[1].extensions) :
        crx[id] \in Versions /\ json[id] \in Versions

\* C9: in every state, an ID that has a record has a package file.
C9_RecordImpliesPackage ==
    \A id \in IDs : json[id] # Absent => crx[id] # Absent

\* C10: while the workers install, a record that reports version v is
\* accompanied by the package bytes of version v.
C10_RecordMatchesPackage ==
    mainpc = "map" =>
        \A id \in IDs : json[id] \in Versions => crx[id] = json[id]

\* C11: _get_installed_version never fails its caller: whatever the record
\* of the ID is (missing, unreadable, without a version field), the step of
\* process() that reads it goes on to the query of the web store with the
\* version read, or with '0' when no version could be read; no exception
\* leaves the call.
C11_NeverFailsCaller ==
    [][\A i \in DOMAIN tasks :
          (mainpc = "map" /\ mainpc' = "map" /\ tasks[i].pc = "start"
             /\ tasks'[i].pc # "start") =>
              /\ tasks'[i].pc = "resolve"
              /\ tasks'[i].installed_ver =
                     IF json[JsonPath(ext(i))] \in Versions
                     THEN json[JsonPath(ext(i))] ELSE "0"]_vars

\* C12: once a job of the pass has hit a run-fatal condition (a transport
\* failure, or a redirect target without the version pattern), no job of
\* another ID starts a package write or a record write any more, and the
\* main thread does not go on to remove_orphans: the run can only end with
\* a non-zero exit status.
C12_AbortAtOnce ==
    [][\A i \in DOMAIN tasks :
          (Fatal(i) /\ mainpc \in {"map", "exit1", "uncaught"}
             /\ mainpc' # "cfgloop") =>
              /\ mainpc' \in {"map", "exit1", "uncaught"}
              /\ \A j \in DOMAIN tasks :
                    ext(j) # ext(i) =>
                        /\ ~(tasks[j].pc = "crx_open" /\ tasks'[j].pc = "crx_write")
                        /\ ~(tasks[j].pc = "json_open" /\ tasks'[j].pc = "json_write")]_vars

\* C13: whatever list of IDs the configuration holds, duplicates included,
\* no two process() calls that are in progress at the same time work on
\* the same ID.
C13_PerKeyIsolation ==
    \A i, j \in DOMAIN tasks :
        (i # j /\ Active(i) /\ Active(j)) => ext(i) # ext(j)

\* C15: in every state the number of process() calls in progress is at
\* most cfg['threads'].
C15_BoundedFanOut ==
    NumActive <= cfg.threads

\* C15 witness: three IDs on a pool of two threads: two calls are in
\* progress, both in the middle of an install, and the third job waits.
C15_Witness ==
    /\ mainpc = "map"
    /\ cfg.threads = 2
    /\ Len(cfg.extensions) = 3
    /\ NumActive = 2
    /\ tasks[1].pc \in WritePcs
    /\ tasks[2].pc \in WritePcs
    /\ tasks[3].pc = "queued"

\* C18: a run that follows a killed run, on the store the killed run left,
\* with pairwise distinct IDs, a version published for each of them and no
\* transport failure, raises no exception in any job, and once its map has
\* returned the record and the package of every configured ID hold the
\* published version.
C18_CrashRecovery ==
    (/\ run > 1
     /\ Distinct(cfg.extensions)
     /\ \A i \in DOMAIN tasks :
           /\ get_latest_version(remote[ext(i)]) \in Versions
           /\ tasks[i].pc # "exited") =>
        /\ mainpc # "uncaught"
        /\ \A i \in DOMAIN tasks : tasks[i].pc # "raised"
        /\ mainpc \in OrphanPcs \cup {"done"} =>
              \A i \in DOMAIN tasks :
                  /\ json[ext(i)] = get_latest_version(remote[ext(i)])
                  /\ crx[ext(i)] = get_latest_version(remote[ext(i)])

\* --------------------------------- _get_latest_version, character by character
MaxBody == 4        \* longest variable part of a redirect target

\* Strings are tuples of characters here.
Host == <<"h", "/">>
ExtensionPrefix == <<"e", "x", "t", "e", "n", "s", "i", "o", "n", "_">>
CrxSuffix == <<"c", "r", "x">>
Digits == {"0", "1", "2", "3", "4", "5", "6", "7", "8", "9"}
GroupChars == Digits \cup {"_"}           \* [\d_]
BodyChars == {"1", "2", "_", ".", "x"}

\* Redirect targets: a host, 'extension_' or a name that is not the
\* prefix, up to MaxBody characters, and 'crx' or nothing.
Bodies == UNION {[1..n -> BodyChars] : n \in 0..MaxBody}
Targets == {Host \o pre \o body \o suf :
                pre \in {ExtensionPrefix, <<"e", "x", "t">>},
                body \in Bodies,
                suf \in {CrxSuffix, <<>>}}

\* The literal lit stands in s at position p.
IsAt(s, p, lit) ==
    /\ p + Len(lit) - 1 <= Len(s)
    /\ \A k \in 1..Len(lit) : s[p + k - 1] = lit[k]

\* The lengths k of a group [\d_]+ that starts at q and is followed by one
\* more character ('.' in the pattern is not escaped: any character but a
\* newline) and then by 'crx'.
GroupLens(s, q) ==
    {k \in 1..Len(s) :
        /\ q + k + Len(CrxSuffix) <= Len(s)
        /\ \A j \in 0..(k - 1) : s[q + j] \in GroupChars
        /\ s[q + k] # "\n"
        /\ IsAt(s, q + k + 1, CrxSuffix)}

\* The positions at which r'extension_([\d_]+).crx' matches.
MatchStarts(s) ==
    {p \in 1..Len(s) :
        /\ IsAt(s, p, ExtensionPrefix)
        /\ GroupLens(s, p + Len(ExtensionPrefix)) # {}}

\* re.search(r'extension_([\d_]+).crx', s): group(1) of the leftmost match,
\* the group taken as long as the rest of the pattern allows; NoMatch for
\* None.
search(s) ==
    IF MatchStarts(s) = {} THEN NoMatch
    ELSE LET p == CHOOSE x \in MatchStarts(s) : \A y \in MatchStarts(s) : x <= y
             q == p + Len(ExtensionPrefix)
         IN  SubSeq(s, q, q + Max(GroupLens(s, q)) - 1)

\* g.replace('_', '.')
replace(g) == [k \in 1..Len(g) |-> IF g[k] = "_" THEN "." ELSE g[k]]

\* Lines 109-118 of _get_latest_version: (version, url) for the redirect
\* target s, Raise for the RuntimeError.
latest_version(s) ==
    IF search(s) = NoMatch THEN Raise
    ELSE <<replace(search(s)), s>>

\* The same lines called once on a target.
InitParse ==
    /\ run = 1
    /\ mainpc = "cfgloop"
    /\ cfgfiles = <<>>
    /\ cfgIdx = 1
    /\ cfg = NoCfg
    /\ tasks = <<>>
    /\ crx = [id \in IDs |-> Absent]
    /\ json = [id \in IDs |-> Absent]
    /\ remote = [id \in IDs |-> NoContent]
    /\ orphans = {}
    /\ cur = None
    /\ snapCrx = crx
    /\ snapJson = json
    /\ quiet = {}
    /\ target \in Targets
    /\ result = None

Parse ==
    /\ result = None
    /\ result' = latest_version(target)
    /\ UNCHANGED <<run, mainpc, cfgfiles, cfgIdx, cfg, tasks, crx, json, remote,
                   orphans, cur, snapCrx, snapJson, quiet, target>>

NextParse == Parse

SpecParse == InitParse /\ [][NextParse]_vars

\* The targets of the runs of main() written out, and the versions as the
\* strings the runs use.
CharsOf(url) ==
    CASE url = "https://store/extension_1_0.crx" ->
             Host \o ExtensionPrefix \o <<"1", "_", "0", ".">> \o CrxSuffix
      [] url = "https://store/extension_1_1.crx" ->
             Host \o ExtensionPrefix \o <<"1", "_", "1", ".">> \o CrxSuffix
      [] OTHER -> Host \o <<"e", "r", "r", "o", "r">>

StringOf(v) ==
    CASE v = <<"1", ".", "0">> -> "1.0"
      [] v = <<"1", ".", "1">> -> "1.1"
      [] OTHER -> Raise

\* get_latest_version answers the three targets of the runs as
\* latest_version does.
TablesAgree ==
    \A url \in Urls :
        get_latest_version(url) =
            IF latest_version(CharsOf(url)) = Raise THEN Raise
            ELSE StringOf(latest_version(CharsOf(url))[1])

\* A version as the claim writes it: numeric components joined by single
\* underscores.
WellFormed(g) ==
    /\ Len(g) > 0
    /\ \A k \in 1..Len(g) : g[k] \in GroupChars
    /\ g[1] \in Digits
    /\ g[Len(g)] \in Digits
    /\ \A k \in 1..(Len(g) - 1) : ~(g[k] = "_" /\ g[k + 1] = "_")

\* The groups g for which s contains 'extension_' g '.crx', g well formed.
PatternGroups(s) ==
    {g \in {SubSeq(s, q, r) : q \in 1..Len(s), r \in 1..Len(s)} :
        /\ WellFormed(g)
        /\ \E q \in 1..Len(s) :
              /\ IsAt(s, q, ExtensionPrefix \o g \o <<".">> \o CrxSuffix)}

\* C14: for a redirect target that contains 'extension_<n1>_..._<nk>.crx'
\* with numeric components, _get_latest_version returns the components
\* joined with dots together with the target; for a target that does not
\* contain the pattern it raises and returns no version.
C14_VersionPattern ==
    result # None =>
        IF PatternGroups(target) # {}
        THEN /\ result # Raise
             /\ result[2] = target
             /\ \E g \in PatternGroups(target) : result[1] = replace(g)
        ELSE result = Raise

C17_BestEffortCleanup ==
    /\ [][(mainpc = "rm_json" /\ json[JsonPath(cur)] = Absent) =>
             /\ mainpc' = "rm_loop"
             /\ orphans' = orphans \ {cur}
             /\ crx' = crx
             /\ json' = json]_vars
    /\ []((mainpc = "reconciled" /\ cfg.remove_orphans) =>
             \A id \in ScanOrphans(snapCrx, cfg.extensions) :
                 /\ crx[CrxPath(id)] = Absent
                 /\ json[JsonPath(id)] = Absent)

\* C17 witness: b and c were orphans, b without a record and c with one;
\* remove_orphans has returned and the files of both are gone.
C17_Witness ==
    /\ mainpc = "reconciled"
    /\ cfg.remove_orphans
    /\ {"b", "c"} \cap Range(cfg.extensions) = {}
    /\ snapCrx["b"] # Absent /\ snapJson["b"] = Absent
    /\ snapCrx["c"] # Absent /\ snapJson["c"] # Absent
    /\ crx["b"] = Absent /\ json["b"] = Absent
    /\ crx["c"] = Absent /\ json["c"] = Absent

\* C19: when remove_orphans has returned with the removal enabled, no ID
\* outside the configuration has a record, whatever files the run found.
C19_NoLeftoverRecords ==
    (mainpc = "reconciled" /\ cfg.remove_orphans) =>
        \A id \in IDs \ Range(cfg.extensions) : json[JsonPath(id)] = Absent

\* C20: while the jobs of a file are mapped and while remove_orphans runs,
\* the global cfg is the configuration of the file the loop of main() is
\* at; the loop moves to the next file only from the end of remove_orphans,
\* and cfg is replaced by the configuration of a file only when no job is
\* queued or in progress.
C20_OneFileAtATime ==
    /\ [](mainpc \in {"map"} \cup OrphanPcs => cfg = cfgfiles[cfgIdx])
    /\ [][cfgIdx' # cfgIdx /\ run' = run =>
             mainpc = "reconciled" /\ cfgIdx' = cfgIdx + 1]_vars
    /\ [][(cfg' # cfg /\ run' = run) =>
             /\ mainpc = "cfgloop"
             /\ cfg' = cfgfiles[cfgIdx]
             /\ \A i \in DOMAIN tasks : tasks[i].pc = "returned"]_vars

\* C20 witness: the first file listed a and its pass installed it; the
\* second file lists b with other settings and its job is in the middle
\* of an install under the second configuration.
C20_Witness ==
    /\ run = 1
    /\ cfgIdx = 2
    /\ mainpc = "map"
    /\ cfgfiles[1].extensions = <<"a">>
    /\ cfgfiles[2].extensions = <<"b">>
    /\ cfgfiles[1].threads # cfgfiles[2].threads
    /\ cfgfiles[1].remove_orphans # cfgfiles[2].remove_orphans
    /\ cfg = cfgfiles[2]
    /\ tasks[1].pc \in WritePcs
    /\ json["a"] = get_latest_version(remote["a"])

====
